---- MODULE Spec2Model ----
(***************************************************************************)
(* A model of the nitric CLI (asalkeld/newcli): the code-as-config         *)
(* declaration capture server (package codeconfig), the image build        *)
(* harness (package build), and the discovery/merge steps that the         *)
(* deployment commands drive.                                              *)
(***************************************************************************)
EXTENDS Integers, Sequences, FiniteSets, TLC

(***************************************************************************)
(* Bounds of the model.                                                    *)
(***************************************************************************)
MaxOps == 2
MaxFuncs == 2
MaxContainers == 1
MaxClaims == 3
MaxWait == 2
MaxArgs == 1
MaxTriggers == 2
MaxUserArgs == 1

(***************************************************************************)
(* The declaration capture server: package codeconfig.                     *)
(***************************************************************************)
Functions == {"fA", "fB"}
Servers == {"sA", "sB"}
Names == {"n1", "n2"}
\* The streams function containers may open during one run.
StreamIds == {1, 2}

\* A nil config pointer of a declare request, and a non-nil one.
NilCfg == "nil"
Metas == {NilCfg, "m1"}

\* The resource types Server.Declare has a case for, and one it has none for.
DeclaredTypes == {"Bucket", "Collection", "Queue", "Topic", "Policy", "Secret", "Api"}
OtherTypes == {"Function"}
ResourceTypes == DeclaredTypes \cup OtherTypes

\* The InitRequest worker variants, "Plain" being an InitRequest with none of them.
TriggerWorkers == {"Api", "Schedule", "Subscription"}
InitWorkers == TriggerWorkers \cup {"Plain"}
\* First messages of a client: an InitRequest, or a message that is none.
InitRequests == [init : {TRUE}, worker : TriggerWorkers, name : Names]
    \cup {[init |-> TRUE, worker |-> "Plain", name |-> "none"]}
NotInit == [init |-> FALSE, worker |-> "none", name |-> "none"]
Messages == InitRequests \cup {NotInit}

\* gRPC status codes and results the handlers return.
OK == "OK"
Internal == "Internal"
FailedPrecondition == "FailedPrecondition"
UnsupportedType == "unsupported resource type"
Panic == "panic"

\* The capture server's state; `writers` notes, per FunctionDependencies, the
\* servers whose handlers have called an accumulator on it.
VARIABLES server, deps, streams, ops, crashed, last, writers
\* The build harness's state: the project, the project directory, and the
\* position of a call of build.Create or build.CreateBaseDev; engineBuilds
\* lists the image tags the container engine's Build was invoked with.
VARIABLES project, fs, bpc, routine, idx, deferred, berr, built, imagesToBuild,
          created, engineBuilds

\* The merge of the functions' claims into the dependency graph.
VARIABLES claimsIn, graph, midx, again, firstGraph

\* The discovery orchestrator: per function, where its discovery stands, its
\* build descriptor, its container, the time its session has waited, and what
\* was recorded for it; whether the run was cancelled, how often the graph was
\* built, and whether provisioning has taken it.
VARIABLES dstate, descriptor, container, waited, derr, recorded, cancelled,
          graphBuilds, provisioned

\* A run of the deployment apply command: its arguments, what its collaborators
\* will answer, its position, the calls it has made, and its exit code.
VARIABLES cmdArgs, cmdEnv, cmdPc, cmdCalls, cmdExit

\* A provider creating the compute resource of one function: the provider,
\* the topics the function is triggered by, the topics of the stack, the topic
\* whose subscription the cloud refuses, the position in the loop, the
\* warnings printed, the subscriptions made, and the error returned.
VARIABLES prov, ptriggers, ptopics, pfault, ppc, pidx, pwarnings, psubs, perr

\* The alias commands: the configured aliases, the order the map is ranged
\* over, the loop-variable semantics of the build, the position, the loop
\* variable aliasString, what each registered command's closure holds, and the
\* alias run, the user's arguments and the resulting os.Args.
VARIABLES aliases, aorder, loopSem, apc, aidx, aliasString, acmds, ran, aargs,
          osArgs

\* build.List: the project, whether an engine is discovered, what the engine
\* answers for each component, the position, the components left in the
\* current loop, the images collected, the errors printed and the return.
VARIABLES lproject, lengine, lout, lpc, ltodo, limages, lprinted, lret

\* newMongoCollections: the resource group's location, the project's
\* collections, the call that fails, the position, the locals primaryGeo and
\* secondaryGeo, the account, the database, the collections and the return.
VARIABLES mlocation, mproj, mfault, mpc, mgeo, maccount, mdb, mcollections,
          mret

captureVars == <<server, deps, streams, ops, crashed, last, writers>>
buildVars == <<project, fs, bpc, routine, idx, deferred, berr, built,
               imagesToBuild, created, engineBuilds>>
mergeVars == <<claimsIn, graph, midx, again, firstGraph>>
discoveryVars == <<dstate, descriptor, container, waited, derr, recorded,
                   cancelled, graphBuilds, provisioned>>
deployVars == <<cmdArgs, cmdEnv, cmdPc, cmdCalls, cmdExit>>
providerVars == <<prov, ptriggers, ptopics, pfault, ppc, pidx, pwarnings,
                  psubs, perr>>
aliasVars == <<aliases, aorder, loopSem, apc, aidx, aliasString, acmds, ran,
               aargs, osArgs>>
listVars == <<lproject, lengine, lout, lpc, ltodo, limages, lprinted, lret>>
mongoVars == <<mlocation, mproj, mfault, mpc, mgeo, maccount, mdb, mcollections, mret>>
vars == <<captureVars, buildVars, mergeVars, discoveryVars, deployVars,
          providerVars, aliasVars,
          listVars,
          mongoVars>>
notAliasVars == <<captureVars, buildVars, mergeVars, discoveryVars, deployVars,
                  providerVars,
    listVars,
    mongoVars>>
notMongoVars == <<captureVars, buildVars, mergeVars, discoveryVars, deployVars,
    providerVars, aliasVars, listVars>>
notListVars == <<captureVars, buildVars, mergeVars, discoveryVars, deployVars,
    providerVars, aliasVars,
    mongoVars>>
notCaptureVars == <<buildVars, mergeVars, discoveryVars, deployVars,
                    providerVars,
                    aliasVars,
    listVars,
    mongoVars>>
notBuildVars == <<captureVars, mergeVars, discoveryVars, deployVars,
                  providerVars,
                    aliasVars,
    listVars,
    mongoVars>>
notMergeVars == <<captureVars, buildVars, discoveryVars, deployVars,
                  providerVars,
                    aliasVars,
    listVars,
    mongoVars>>
notDeployVars == <<captureVars, buildVars, mergeVars, discoveryVars,
                   providerVars,
                    aliasVars,
    listVars,
    mongoVars>>
notProviderVars == <<captureVars, buildVars, mergeVars, discoveryVars,
                     deployVars, aliasVars,
    listVars,
    mongoVars>>
\* What a discovery run leaves alone: all but the FunctionDependencies.
notDiscoveryVars == <<server, streams, ops, crashed, last, writers, buildVars, mergeVars,
                      deployVars, providerVars, aliasVars,
    listVars,
    mongoVars>>

\* A function's accumulator, created empty when its discovery begins.
EmptyDeps ==
    [apis |-> {}, schedules |-> {}, subscriptions |-> {},
     buckets |-> {}, collections |-> {}, queues |-> {}, topics |-> {},
     secrets |-> {}, policies |-> {}, apiSecurityDefinitions |-> {},
     apiSecurity |-> {}]

\* A keyed entry set with the entry of key `name` set to `meta`.
Put(set, name, meta) ==
    {e \in set : e[1] # name} \cup {<<name, meta>>}

\* The accumulator methods of FunctionDependencies.
AddApiHandler(fd, w) == [fd EXCEPT !.apis = @ \cup {w}]
AddScheduleHandler(fd, w) == [fd EXCEPT !.schedules = @ \cup {w}]
AddSubscriptionHandler(fd, w) == [fd EXCEPT !.subscriptions = @ \cup {w}]
AddBucket(fd, name, meta) == [fd EXCEPT !.buckets = Put(@, name, meta)]
AddCollection(fd, name, meta) == [fd EXCEPT !.collections = Put(@, name, meta)]
AddQueue(fd, name, meta) == [fd EXCEPT !.queues = Put(@, name, meta)]
AddTopic(fd, name, meta) == [fd EXCEPT !.topics = Put(@, name, meta)]
AddSecret(fd, name, meta) == [fd EXCEPT !.secrets = Put(@, name, meta)]
AddPolicy(fd, meta) == [fd EXCEPT !.policies = @ \cup {meta}]
AddApiSecurityDefinitions(fd, name, meta) ==
    [fd EXCEPT !.apiSecurityDefinitions = Put(@, name, meta)]
AddApiSecurity(fd, name, meta) == [fd EXCEPT !.apiSecurity = Put(@, name, meta)]

\* NewServer handing every server the FunctionDependencies of function fA.
NewServer_Shared(name, function) == [name |-> name, function |-> "fA"]

\* NewServer: the server of one function, holding its FunctionDependencies.
NewServer(name, function) == [name |-> name, function |-> function]

\* What a handler did: the receiver's FunctionDependencies after it, the error it
\* returned, the accumulator methods it called, and the messages it read.
Outcome(fd, err, calls, reads) ==
    [fd |-> fd, err |-> err, calls |-> calls, reads |-> reads]

\* HandleInit with a worker that names no trigger refused instead of accepted.
HandleInit_PlainRefused(fd, ir, reads) ==
    CASE ir.worker = "Api" ->
           Outcome(AddApiHandler(fd, ir.name), OK, <<"AddApiHandler">>, reads)
      [] ir.worker = "Schedule" ->
           Outcome(AddScheduleHandler(fd, ir.name), OK,
                   <<"AddScheduleHandler">>, reads)
      [] ir.worker = "Subscription" ->
           Outcome(AddSubscriptionHandler(fd, ir.name), OK,
                   <<"AddSubscriptionHandler">>, reads)
      [] OTHER -> Outcome(fd, FailedPrecondition, << >>, reads)

\* TriggerStream's switch on the worker of an InitRequest; a worker that is
\* neither an Api, a Schedule nor a Subscription is a normal function worker.
HandleInit(fd, ir, reads) ==
    CASE ir.worker = "Api" ->
           Outcome(AddApiHandler(fd, ir.name), OK, <<"AddApiHandler">>, reads)
      [] ir.worker = "Schedule" ->
           Outcome(AddScheduleHandler(fd, ir.name), OK,
                   <<"AddScheduleHandler">>, reads)
      [] ir.worker = "Subscription" ->
           Outcome(AddSubscriptionHandler(fd, ir.name), OK,
                   <<"AddSubscriptionHandler">>, reads)
      [] OTHER -> Outcome(fd, OK, << >>, reads)

\* TriggerStreamBody without the InitRequest check: any first message is taken
\* as the InitRequest of a normal function worker.
TriggerStreamBody_NoInitCheck(fd, inbox) ==
    IF inbox = << >>
    THEN Outcome(fd, Internal, << >>, 0)
    ELSE IF ~Head(inbox).init
         THEN Outcome(fd, OK, << >>, 1)
         ELSE Outcome(fd, OK, << >>, 1)

\* TriggerStreamBody receiving in a loop: a second message already sent is read
\* and handled like the first.
TriggerStreamBody_RecvLoop(fd, inbox) ==
    IF inbox = << >>
    THEN Outcome(fd, Internal, << >>, 0)
    ELSE IF ~Head(inbox).init
         THEN Outcome(fd, FailedPrecondition, << >>, 1)
         ELSE IF Len(inbox) > 1 /\ inbox[2].init
              THEN LET one == HandleInit(fd, inbox[1], 1)
                       two == HandleInit(one.fd, inbox[2], 2)
                   IN [two EXCEPT !.calls = one.calls \o two.calls]
              ELSE Outcome(fd, OK, << >>, 1)

\* Server.TriggerStream on a stream whose client has sent `inbox` (and, when that
\* is empty, has ended the stream): one Recv, the InitRequest check, the switch.
TriggerStreamBody(fd, inbox) ==
    IF inbox = << >>
    THEN Outcome(fd, Internal, << >>, 0)
    ELSE IF ~Head(inbox).init
         THEN Outcome(fd, FailedPrecondition, << >>, 1)
         ELSE HandleInit(fd, Head(inbox), 1)

\* Whether TriggerStream got an InitRequest, that is, passed its check.
Identified(inbox) == inbox # << >> /\ Head(inbox).init

\* DeclareBody with a Queue handed to the accumulator of topics.
DeclareBody_QueueAsTopic(fd, req) ==
    IF req.type = "Queue"
    THEN Outcome(AddTopic(fd, req.name, req.cfg), OK, <<"AddTopic">>, 0)
    ELSE Outcome(AddBucket(fd, req.name, req.cfg), OK, <<"AddBucket">>, 0)

\* DeclareBody refusing a resource name the function has already declared.
DeclareBody_RejectDuplicate(fd, req) ==
    IF \E e \in fd.buckets \cup fd.collections \cup fd.queues \cup fd.topics
                \cup fd.secrets : e[1] = req.name
    THEN Outcome(fd, "AlreadyExists", << >>, 0)
    ELSE Outcome([fd EXCEPT !.buckets = @ \cup {<<req.name, req.cfg>>}],
                 OK, <<"AddBucket">>, 0)

\* Server.Declare: the switch on the resource type, then the empty response.
DeclareBody(fd, req) ==
    CASE req.type = "Bucket" ->
           Outcome(AddBucket(fd, req.name, req.cfg), OK, <<"AddBucket">>, 0)
      [] req.type = "Collection" ->
           Outcome(AddCollection(fd, req.name, req.cfg), OK, <<"AddCollection">>, 0)
      [] req.type = "Queue" ->
           Outcome(AddQueue(fd, req.name, req.cfg), OK, <<"AddQueue">>, 0)
      [] req.type = "Topic" ->
           Outcome(AddTopic(fd, req.name, req.cfg), OK, <<"AddTopic">>, 0)
      [] req.type = "Policy" ->
           Outcome(AddPolicy(fd, req.cfg), OK, <<"AddPolicy">>, 0)
      [] req.type = "Secret" ->
           Outcome(AddSecret(fd, req.name, req.cfg), OK, <<"AddSecret">>, 0)
      [] req.type = "Api" ->
           IF req.cfg = NilCfg
           THEN Outcome(fd, Panic, << >>, 0)
           ELSE Outcome(AddApiSecurity(
                            AddApiSecurityDefinitions(fd, req.name, req.cfg),
                            req.name, req.cfg),
                        OK, <<"AddApiSecurityDefinitions", "AddApiSecurity">>, 0)
      [] OTHER -> Outcome(fd, OK, << >>, 0)

\* Server.Details: connection details for an Api, an error for every other type.
DetailsBody(req) ==
    IF req.type = "Api"
    THEN [err |-> OK, id |-> req.name]
    ELSE [err |-> UnsupportedType, id |-> "none"]

DeclareRequests == [type : ResourceTypes, name : Names, cfg : Metas]
DetailsRequests == [type : ResourceTypes, name : Names]

NoStream == [state |-> "NONE", server |-> "none", inbox |-> << >>,
             ended |-> FALSE, trace |-> << >>, reads |-> 0, err |-> "none",
             calls |-> << >>, first |-> "none"]

\* The response of the latest unary call (Declare, Details) and what it was for.
\* `known` tells whether the function already held what the call named.
NoResp == [op |-> "none", type |-> "none", err |-> "none", calls |-> << >>,
           id |-> "none", known |-> FALSE]

\* The entries of fd under the resource type `type`, as <<name, metadata>>.
EntriesOf(fd, type) ==
    CASE type = "Bucket" -> fd.buckets
      [] type = "Collection" -> fd.collections
      [] type = "Queue" -> fd.queues
      [] type = "Topic" -> fd.topics
      [] type = "Secret" -> fd.secrets
      [] type = "Api" -> fd.apiSecurityDefinitions \cup fd.apiSecurity
      [] OTHER -> {}

\* Whether fd holds the declaration req: the same type, name and metadata.
HasEntry(fd, req) ==
    IF req.type = "Policy" THEN req.cfg \in fd.policies
    ELSE <<req.name, req.cfg>> \in EntriesOf(fd, req.type)

\* Whether fd holds a declaration of the resource (type, name).
IsDeclared(fd, type, name) ==
    \/ \E e \in EntriesOf(fd, type) : e[1] = name
    \/ type = "Api" /\ name \in fd.apis

\* The writers after server s's handler made `calls` on f's accumulator.
Written(w, f, s, calls) ==
    IF calls = << >> THEN w ELSE [w EXCEPT ![f] = @ \cup {s}]

CaptureInit ==
    /\ server = [s \in Servers |->
                   IF s = "sA" THEN NewServer("fA", "fA") ELSE NewServer("fB", "fB")]
    /\ deps = [f \in Functions |-> EmptyDeps]
    /\ streams = [i \in StreamIds |-> NoStream]
    /\ ops = 0
    /\ crashed = FALSE
    /\ last = NoResp
    /\ writers = [f \in Functions |-> {}]

\* A function container opens a stream: gRPC starts TriggerStream, which waits in
\* its Recv for the first message.
OpenStream(i, s) ==
    /\ ~crashed
    /\ streams[i].state = "NONE"
    /\ \A j \in StreamIds : j < i => streams[j].state # "NONE"
    /\ streams' = [streams EXCEPT ![i] =
                     [NoStream EXCEPT !.state = "AWAIT_INIT", !.server = s,
                                      !.trace = <<"AWAIT_INIT">>]]
    /\ UNCHANGED <<server, deps, ops, crashed, last, writers>>
    /\ UNCHANGED notCaptureVars

\* The client writes a message to its open stream.
ClientSend(i, m) ==
    /\ ~crashed
    /\ streams[i].state = "AWAIT_INIT"
    /\ ~streams[i].ended
    /\ ops < MaxOps
    /\ ops' = ops + 1
    /\ streams' = [streams EXCEPT ![i].inbox = Append(@, m)]
    /\ UNCHANGED <<server, deps, crashed, last, writers>>
    /\ UNCHANGED notCaptureVars

\* The client ends its side of the stream (or its container exits).
ClientClose(i) ==
    /\ ~crashed
    /\ streams[i].state = "AWAIT_INIT"
    /\ ~streams[i].ended
    /\ ops < MaxOps
    /\ ops' = ops + 1
    /\ streams' = [streams EXCEPT ![i].ended = TRUE]
    /\ UNCHANGED <<server, deps, crashed, last, writers>>
    /\ UNCHANGED notCaptureVars

\* TriggerStream's Recv returns (a message, or an error once the client is gone)
\* and the handler runs to its return, which closes the stream.
TriggerStream(i) ==
    /\ ~crashed
    /\ streams[i].state = "AWAIT_INIT"
    /\ streams[i].inbox # << >> \/ streams[i].ended
    /\ LET s == streams[i].server
           f == server[s].function
           out == TriggerStreamBody(deps[f], streams[i].inbox)
           identified == Identified(streams[i].inbox)
       IN /\ deps' = [deps EXCEPT ![f] = out.fd]
          /\ writers' = Written(writers, f, s, out.calls)
          /\ streams' = [streams EXCEPT
                ![i].state = "CLOSED",
                ![i].inbox = SubSeq(@, out.reads + 1, Len(@)),
                ![i].reads = out.reads,
                ![i].err = out.err,
                ![i].calls = out.calls,
                ![i].first = IF streams[i].inbox = << >> THEN "none"
                             ELSE IF Head(streams[i].inbox).init
                                  THEN Head(streams[i].inbox).worker
                                  ELSE "NotInit",
                ![i].trace = @ \o (IF identified THEN <<"IDENTIFIED">> ELSE << >>)
                               \o <<"CLOSED">>]
    /\ UNCHANGED <<server, ops, crashed, last>>
    /\ UNCHANGED notCaptureVars

\* Declare attributing a declaration to the function only once an InitRequest
\* has been received on a stream of server s.
Declare_Gated(s, req) ==
    /\ ~crashed
    /\ ops < MaxOps
    /\ ops' = ops + 1
    /\ LET f == server[s].function
           out == DeclareBody(deps[f], req)
           gated == ~\E i \in StreamIds :
                        /\ streams[i].server = s
                        /\ streams[i].state = "CLOSED"
                        /\ streams[i].first \in InitWorkers
       IN /\ deps' = IF gated THEN deps ELSE [deps EXCEPT ![f] = out.fd]
          /\ writers' = IF gated THEN writers
                        ELSE Written(writers, f, s, out.calls)
          /\ crashed' = (out.err = Panic)
          /\ last' = [NoResp EXCEPT !.op = "Declare", !.type = req.type,
                         !.err = out.err, !.calls = out.calls,
                         !.known = HasEntry(deps[f], req)]
    /\ UNCHANGED <<server, streams>>
    /\ UNCHANGED notCaptureVars

\* A handler's initialization code declares a resource to server s.
Declare(s, req) ==
    /\ ~crashed
    /\ ops < MaxOps
    /\ ops' = ops + 1
    /\ LET f == server[s].function
           out == DeclareBody(deps[f], req)
       IN /\ deps' = [deps EXCEPT ![f] = out.fd]
          /\ writers' = Written(writers, f, s, out.calls)
          /\ crashed' = (out.err = Panic)
          /\ last' = [NoResp EXCEPT !.op = "Declare", !.type = req.type,
                         !.err = out.err, !.calls = out.calls,
                         !.known = HasEntry(deps[f], req)]
    /\ UNCHANGED <<server, streams>>
    /\ UNCHANGED notCaptureVars

\* Local-development emulation asks server s to describe a resource.
Details(s, req) ==
    /\ ~crashed
    /\ ops < MaxOps
    /\ ops' = ops + 1
    /\ LET out == DetailsBody(req)
       IN last' = [NoResp EXCEPT !.op = "Details", !.type = req.type,
                      !.err = out.err, !.id = out.id,
                      !.known = IsDeclared(deps[server[s].function],
                                           req.type, req.name)]
    /\ UNCHANGED <<server, deps, streams, crashed, writers>>
    /\ UNCHANGED notCaptureVars

CaptureNext ==
    \/ \E i \in StreamIds, s \in Servers : OpenStream(i, s)
    \/ \E i \in StreamIds, m \in Messages : ClientSend(i, m)
    \/ \E i \in StreamIds : ClientClose(i)
    \/ \E i \in StreamIds : TriggerStream(i)
    \/ \E s \in Servers, req \in DeclareRequests : Declare(s, req)
    \/ \E s \in Servers, req \in DetailsRequests : Details(s, req)


(***************************************************************************)
(* The image build harness: package build.                                 *)
(***************************************************************************)
\* Handler file extensions: two with a runtime, one without.
Exts == {"ts", "go", "xx"}
\* What the environment makes fail for a handler: creating the temp file,
\* writing the dockerfile, the container engine's build; or nothing.
Faults == {"none", "tmp", "dockerfile", "build"}
Handlers == [ext : Exts, fault : Faults]
\* The suffixes os.CreateTemp can draw for "nitric.dynamic.Dockerfile.*".
NamePool == {"d1", "d2", "d3"}
Routines == {"Create", "CreateBaseDev"}

NoErr == [kind |-> "nil", fn |-> 0]
Err(kind, fn) == [kind |-> kind, fn |-> fn]

\* All sequences over S of length at most n.
SeqsUpTo(S, n) == UNION {[1..k -> S] : k \in 0..n}

Range(s) == {s[k] : k \in 1..Len(s)}

\* runtime.NewRunTimeFromHandler: whether the handler's extension has a runtime.
NewRunTimeFromHandler(handler) == handler.ext # "xx"

\* The language key CreateBaseDev derives from the handler's extension.
Lang(handler) == handler.ext

\* RunDeferred with every deferred closure sharing one file variable: only the
\* descriptor created last is removed.
RunDeferred_LastOnly(files, names) ==
    IF names = << >> THEN files
    ELSE {e \in files : e.name # names[Len(names)]}

\* The deferred calls of a returning build function: every descriptor it
\* created is removed by name.
RunDeferred(files, names) == {e \in files : e.name \notin Range(names)}

\* One iteration of Create's loop over s.Functions for handler number i, with
\* `free` the name os.CreateTemp draws ("none" when it finds none): whether the
\* descriptor was created (and its removal deferred), the error returned, if
\* any, and whether the image was built.
CreateIteration(h, i, free) ==
    IF h.fault = "tmp" \/ free = "none"
    THEN [file |-> FALSE, err |-> Err("tmp", i), image |-> FALSE,
          invoked |-> FALSE]
    ELSE IF ~NewRunTimeFromHandler(h)
    THEN [file |-> TRUE, err |-> Err("runtime", i), image |-> FALSE,
          invoked |-> FALSE]
    ELSE IF h.fault = "dockerfile"
    THEN [file |-> TRUE, err |-> Err("dockerfile", i), image |-> FALSE,
          invoked |-> FALSE]
    ELSE IF h.fault = "build"
    THEN [file |-> TRUE, err |-> Err("build", i), image |-> FALSE,
          invoked |-> TRUE]
    ELSE [file |-> TRUE, err |-> NoErr, image |-> TRUE, invoked |-> TRUE]

\* CreateBaseDevIteration without the check of imagesToBuild.
CreateBaseDevIteration_NoDedupe(h, i, free, done) ==
    IF ~NewRunTimeFromHandler(h)
    THEN [file |-> FALSE, err |-> Err("runtime", i), image |-> FALSE,
          invoked |-> FALSE]
    ELSE IF h.fault = "tmp" \/ free = "none"
    THEN [file |-> FALSE, err |-> Err("tmp", i), image |-> FALSE,
          invoked |-> FALSE]
    ELSE IF h.fault = "dockerfile"
    THEN [file |-> TRUE, err |-> Err("dockerfile", i), image |-> FALSE,
          invoked |-> FALSE]
    ELSE IF h.fault = "build"
    THEN [file |-> TRUE, err |-> Err("build", i), image |-> FALSE,
          invoked |-> TRUE]
    ELSE [file |-> TRUE, err |-> NoErr, image |-> TRUE, invoked |-> TRUE]

\* One iteration of CreateBaseDev's loop, `done` being the languages already in
\* imagesToBuild.
CreateBaseDevIteration(h, i, free, done) ==
    IF ~NewRunTimeFromHandler(h)
    THEN [file |-> FALSE, err |-> Err("runtime", i), image |-> FALSE,
          invoked |-> FALSE]
    ELSE IF Lang(h) \in done
    THEN [file |-> FALSE, err |-> NoErr, image |-> FALSE,
          invoked |-> FALSE]
    ELSE IF h.fault = "tmp" \/ free = "none"
    THEN [file |-> FALSE, err |-> Err("tmp", i), image |-> FALSE,
          invoked |-> FALSE]
    ELSE IF h.fault = "dockerfile"
    THEN [file |-> TRUE, err |-> Err("dockerfile", i), image |-> FALSE,
          invoked |-> FALSE]
    ELSE IF h.fault = "build"
    THEN [file |-> TRUE, err |-> Err("build", i), image |-> FALSE,
          invoked |-> TRUE]
    ELSE [file |-> TRUE, err |-> NoErr, image |-> TRUE, invoked |-> TRUE]

\* FreeNames with one stable descriptor name.
FreeNames_Stable == {"d1"}

\* The names os.CreateTemp may return: those no file of the directory has.
FreeNames == IF NamePool \subseteq {e.name : e \in fs}
             THEN {"none"}
             ELSE NamePool \ {e.name : e \in fs}

BuildIdle ==
    /\ project = [functions |-> << >>, containers |-> 0]
    /\ fs = {}
    /\ bpc = "idle"
    /\ routine = "none"
    /\ idx = 0
    /\ deferred = << >>
    /\ berr = NoErr
    /\ built = {}
    /\ imagesToBuild = {}
    /\ created = {}
    /\ engineBuilds = << >>

\* The project the command loaded: its handlers and its number of containers.
BuildInit ==
    /\ project \in [functions : SeqsUpTo(Handlers, MaxFuncs),
                    containers : 0..MaxContainers]
    /\ fs = {}
    /\ bpc = "idle"
    /\ routine = "none"
    /\ idx = 0
    /\ deferred = << >>
    /\ berr = NoErr
    /\ built = {}
    /\ imagesToBuild = {}
    /\ created = {}
    /\ engineBuilds = << >>

\* Where a build function goes after an iteration without error.
AfterFunction(r, i) ==
    IF i < Len(project.functions) THEN "functions"
    ELSE IF r = "Create" /\ project.containers > 0 THEN "containers"
    ELSE "return"

\* build.Create or build.CreateBaseDev is called: containerengine.Discover,
\* whose error is returned at once, then the loop over the functions begins.
BuildCall(r, discovered) ==
    /\ bpc = "idle"
    /\ routine' = r
    /\ IF ~discovered
       THEN /\ berr' = Err("discover", 0)
            /\ bpc' = "return"
            /\ idx' = 0
       ELSE /\ berr' = NoErr
            /\ bpc' = AfterFunction(r, 0)
            /\ idx' = 1
    /\ UNCHANGED <<project, fs, deferred, built, imagesToBuild, created,
                   engineBuilds>>
    /\ UNCHANGED notBuildVars

\* One iteration of the loop over s.Functions.
FunctionStep(free) ==
    /\ bpc = "functions"
    /\ free \in FreeNames
    /\ LET h == project.functions[idx]
           it == IF routine = "Create"
                 THEN CreateIteration(h, idx, free)
                 ELSE CreateBaseDevIteration(h, idx, free, imagesToBuild)
       IN /\ fs' = IF it.file
                   THEN fs \cup {[name |-> free, owner |-> idx]}
                   ELSE fs
          /\ created' = IF it.file THEN created \cup {free} ELSE created
          /\ deferred' = IF it.file THEN Append(deferred, free) ELSE deferred
          /\ berr' = it.err
          /\ built' = IF it.image
                      THEN built \cup {IF routine = "Create"
                                       THEN <<"function", idx>>
                                       ELSE <<"dev", Lang(h)>>}
                      ELSE built
          /\ engineBuilds' = IF it.invoked
                             THEN Append(engineBuilds,
                                         IF routine = "Create"
                                         THEN <<"function", idx>>
                                         ELSE <<"dev", Lang(h)>>)
                             ELSE engineBuilds
          /\ imagesToBuild' = IF it.image /\ routine = "CreateBaseDev"
                              THEN imagesToBuild \cup {Lang(h)}
                              ELSE imagesToBuild
          /\ IF it.err # NoErr
             THEN bpc' = "return" /\ idx' = idx
             ELSE /\ bpc' = AfterFunction(routine, idx)
                  /\ idx' = IF idx < Len(project.functions) THEN idx + 1 ELSE 1
    /\ UNCHANGED <<project, routine>>
    /\ UNCHANGED notBuildVars

\* One iteration of Create's loop over s.Containers: the engine builds the
\* container's own Dockerfile, or fails.
ContainerStep(ok) ==
    /\ bpc = "containers"
    /\ engineBuilds' = Append(engineBuilds, <<"container", idx>>)
    /\ IF ok
       THEN /\ built' = built \cup {<<"container", idx>>}
            /\ berr' = NoErr
            /\ IF idx < project.containers
               THEN bpc' = "containers" /\ idx' = idx + 1
               ELSE bpc' = "return" /\ idx' = idx
       ELSE /\ berr' = Err("container", idx)
            /\ bpc' = "return"
            /\ UNCHANGED <<built, idx>>
    /\ UNCHANGED <<project, fs, routine, deferred, imagesToBuild, created>>
    /\ UNCHANGED notBuildVars

\* The function returns: its deferred calls run, then the caller has berr.
BuildReturn ==
    /\ bpc = "return"
    /\ fs' = RunDeferred(fs, deferred)
    /\ deferred' = << >>
    /\ bpc' = "done"
    /\ UNCHANGED <<project, routine, idx, berr, built, imagesToBuild, created,
                   engineBuilds>>
    /\ UNCHANGED notBuildVars

\* A build running concurrently in the same project directory creates its
\* descriptor, by dynamicDockerfile like this one's.
ConcurrentCreate(free) ==
    /\ bpc \in {"functions", "containers"}
    /\ free \in FreeNames \ {"none"}
    /\ \A e \in fs : e.owner # 0
    /\ fs' = fs \cup {[name |-> free, owner |-> 0]}
    /\ UNCHANGED <<project, bpc, routine, idx, deferred, berr, built,
                   imagesToBuild, created, engineBuilds>>
    /\ UNCHANGED notBuildVars

\* The concurrent build returns and removes its descriptor.
ConcurrentRemove ==
    /\ bpc \in {"functions", "containers"}
    /\ \E e \in fs : e.owner = 0
    /\ fs' = {e \in fs : e.owner # 0}
    /\ UNCHANGED <<project, bpc, routine, idx, deferred, berr, built,
                   imagesToBuild, created, engineBuilds>>
    /\ UNCHANGED notBuildVars

BuildNext ==
    \/ \E r \in Routines, discovered \in BOOLEAN : BuildCall(r, discovered)
    \/ \E free \in NamePool \cup {"none"} : FunctionStep(free)
    \/ \E ok \in BOOLEAN : ContainerStep(ok)
    \/ BuildReturn
    \/ \E free \in NamePool : ConcurrentCreate(free)
    \/ ConcurrentRemove

CaptureIdle ==
    /\ server = [s \in Servers |->
                   IF s = "sA" THEN NewServer("fA", "fA") ELSE NewServer("fB", "fB")]
    /\ deps = [f \in Functions |-> EmptyDeps]
    /\ streams = [i \in StreamIds |-> NoStream]
    /\ ops = 0
    /\ crashed = FALSE
    /\ last = NoResp
    /\ writers = [f \in Functions |-> {}]

(***************************************************************************)
(* The dependency graph: the merge of every function's resource claims.    *)
(***************************************************************************)
ClaimKinds == {"Bucket", "Topic"}
ClaimNames == {"uploads", "events"}
AccessModes == {"read", "write"}
\* A ResourceClaim: (kind, name, requestingFunction, accessMode).
ResourceClaims == [kind : ClaimKinds, name : ClaimNames, fn : Functions,
                   mode : AccessModes]

SameKey(e, c) == e.kind = c.kind /\ e.name = c.name

\* MergeClaim making a new graph resource for every claim.
MergeClaim_AlwaysNew(g, c) ==
    g \cup {[kind |-> c.kind, name |-> c.name, policies |-> {<<c.fn, c.mode>>}]}

\* MergeClaim letting the latest claim of a resource replace its policies.
MergeClaim_LastWins(g, c) ==
    {e \in g : ~SameKey(e, c)}
        \cup {[kind |-> c.kind, name |-> c.name, policies |-> {<<c.fn, c.mode>>}]}

\* One claim merged into the graph: the resource of its (kind, name) gains the
\* claim's policy, and is created when the graph has none.
MergeClaim(g, c) ==
    IF \E e \in g : SameKey(e, c)
    THEN {IF SameKey(e, c)
          THEN [e EXCEPT !.policies = @ \cup {<<c.fn, c.mode>>}]
          ELSE e : e \in g}
    ELSE g \cup {[kind |-> c.kind, name |-> c.name,
                  policies |-> {<<c.fn, c.mode>>}]}

\* The scan of a sequence of claims into a graph, first to last.
RECURSIVE MergeAll(_, _)
MergeAll(g, cs) ==
    IF cs = << >> THEN g ELSE MergeAll(MergeClaim(g, Head(cs)), Tail(cs))

MergeIdle ==
    /\ claimsIn = << >>
    /\ graph = {}
    /\ midx = 0
    /\ again = FALSE
    /\ firstGraph = {}

\* The claims of all functions, in the order their sessions completed.
MergeInit ==
    /\ claimsIn \in SeqsUpTo(ResourceClaims, MaxClaims)
    /\ graph = {}
    /\ midx = 0
    /\ again = FALSE
    /\ firstGraph = {}

\* The merge takes the next claim of its scan.
MergeStep ==
    /\ midx < Len(claimsIn)
    /\ graph' = MergeClaim(graph, claimsIn[midx + 1])
    /\ midx' = midx + 1
    /\ UNCHANGED <<claimsIn, again, firstGraph>>
    /\ UNCHANGED notMergeVars

\* The merge is run again on the same claims, onto the graph it produced.
MergeAgain ==
    /\ midx = Len(claimsIn)
    /\ ~again
    /\ again' = TRUE
    /\ firstGraph' = graph
    /\ midx' = 0
    /\ UNCHANGED <<claimsIn, graph>>
    /\ UNCHANGED notMergeVars

MergeNext == MergeStep \/ MergeAgain

(***************************************************************************)
(* The discovery orchestrator: one capture session per function, each with *)
(* a bounded wait for its first message, then the dependency graph.        *)
(***************************************************************************)
BuildError == "BuildError"
DiscoveryTimeout == "DiscoveryTimeout"
Cancelled == "Cancelled"

\* The declarations a container makes while its session is open.
DiscoveryDeclares ==
    {[type |-> "Bucket", name |-> "n1", cfg |-> "m1"],
     [type |-> "Topic", name |-> "n2", cfg |-> "m1"]}

\* The states of a function's discovery that is under way, and those that
\* have terminated.
InFlight == {"building", "awaiting", "closed"}
Terminated == {"recorded", "cancelled"}

\* SessionExpired with the wait never ending.
SessionExpired_Never(w) == FALSE

\* Whether a session that has waited w units has used up its bounded wait.
SessionExpired(w) == w >= MaxWait

\* TornDown stopping only the container of a function discovered without error.
TornDown_OnSuccessOnly(c, err) == IF err = OK THEN "stopped" ELSE c

\* The container of a function whose session closed with err, after teardown.
TornDown(c, err) == "stopped"

\* GraphReady as soon as one function has terminated.
GraphReady_AnyTerminated(ds) == \E f \in Functions : ds[f] \in Terminated

\* Whether the graph may be built: every function's discovery has terminated.
GraphReady(ds) == \A f \in Functions : ds[f] \in Terminated

\* CancelContainer leaving a started container running.
CancelContainer_Leave(c) == c

\* What cancelling the run does to a container: a running one is killed.
CancelContainer(c) == IF c = "running" THEN "killed" ELSE c

DiscoveryIdle ==
    /\ dstate = [f \in Functions |-> "pending"]
    /\ descriptor = [f \in Functions |-> FALSE]
    /\ container = [f \in Functions |-> "none"]
    /\ waited = [f \in Functions |-> 0]
    /\ derr = [f \in Functions |-> "none"]
    /\ recorded = [f \in Functions |-> "none"]
    /\ cancelled = FALSE
    /\ graphBuilds = 0
    /\ provisioned = FALSE

DiscoveryInit == DiscoveryIdle

\* The orchestrator resolves f's runtime and starts building its image from
\* an ephemeral build descriptor.
BeginBuild(f) ==
    /\ ~cancelled
    /\ dstate[f] = "pending"
    /\ dstate' = [dstate EXCEPT ![f] = "building"]
    /\ descriptor' = [descriptor EXCEPT ![f] = TRUE]
    /\ UNCHANGED <<container, waited, derr, recorded, cancelled, graphBuilds,
                   provisioned, deps>>
    /\ UNCHANGED notDiscoveryVars

\* The build of f's image returns and the descriptor is removed; on success
\* the container is started, and its session waits for its first message.
FinishBuild(f, ok) ==
    /\ dstate[f] = "building"
    /\ descriptor' = [descriptor EXCEPT ![f] = FALSE]
    /\ IF ok
       THEN /\ dstate' = [dstate EXCEPT ![f] = "awaiting"]
            /\ container' = [container EXCEPT ![f] = "running"]
            /\ UNCHANGED <<derr, recorded>>
       ELSE /\ dstate' = [dstate EXCEPT ![f] = "recorded"]
            /\ derr' = [derr EXCEPT ![f] = BuildError]
            /\ recorded' = [recorded EXCEPT ![f] = "failure"]
            /\ UNCHANGED container
    /\ UNCHANGED <<waited, cancelled, graphBuilds, provisioned, deps>>
    /\ UNCHANGED notDiscoveryVars

\* f's container declares a resource to f's server.
ContainerDeclare(f, req) ==
    /\ dstate[f] = "awaiting"
    /\ container[f] = "running"
    /\ DeclareBody(deps[f], req).fd # deps[f]
    /\ deps' = [deps EXCEPT ![f] = DeclareBody(@, req).fd]
    /\ UNCHANGED discoveryVars
    /\ UNCHANGED notDiscoveryVars

\* f's container sends its first message: TriggerStream handles it and closes
\* the session.
SessionMessage(f, m) ==
    /\ dstate[f] = "awaiting"
    /\ container[f] = "running"
    /\ LET out == TriggerStreamBody(deps[f], <<m>>)
       IN /\ deps' = [deps EXCEPT ![f] = out.fd]
          /\ derr' = [derr EXCEPT ![f] = out.err]
    /\ dstate' = [dstate EXCEPT ![f] = "closed"]
    /\ UNCHANGED <<descriptor, container, waited, recorded, cancelled,
                   graphBuilds, provisioned>>
    /\ UNCHANGED notDiscoveryVars

\* Time passes for a session still waiting within its bound.
Tick(f) ==
    /\ dstate[f] = "awaiting"
    /\ ~SessionExpired(waited[f])
    /\ waited' = [waited EXCEPT ![f] = @ + 1]
    /\ UNCHANGED <<dstate, descriptor, container, derr, recorded, cancelled,
                   graphBuilds, provisioned, deps>>
    /\ UNCHANGED notDiscoveryVars

\* The bounded wait is used up: the session is closed with DiscoveryTimeout,
\* the container is killed, f's dependencies are recorded as empty.
SessionTimeout(f) ==
    /\ dstate[f] = "awaiting"
    /\ SessionExpired(waited[f])
    /\ dstate' = [dstate EXCEPT ![f] = "recorded"]
    /\ derr' = [derr EXCEPT ![f] = DiscoveryTimeout]
    /\ container' = [container EXCEPT ![f] = "killed"]
    /\ deps' = [deps EXCEPT ![f] = EmptyDeps]
    /\ recorded' = [recorded EXCEPT ![f] = "failure"]
    /\ UNCHANGED <<descriptor, waited, cancelled, graphBuilds, provisioned>>
    /\ UNCHANGED notDiscoveryVars

\* f's session has closed: success or failure is recorded and the container
\* is torn down.
RecordFunction(f) ==
    /\ dstate[f] = "closed"
    /\ dstate' = [dstate EXCEPT ![f] = "recorded"]
    /\ recorded' = [recorded EXCEPT ![f] =
                      IF derr[f] = OK THEN "success" ELSE "failure"]
    /\ container' = [container EXCEPT ![f] = TornDown(@, derr[f])]
    /\ UNCHANGED <<descriptor, waited, derr, cancelled, graphBuilds,
                   provisioned, deps>>
    /\ UNCHANGED notDiscoveryVars

\* The run, not yet through its functions, is cancelled: every discovery
\* under way is cancelled, its descriptor removed and its container killed;
\* nothing more is started.
Cancel ==
    /\ ~cancelled
    /\ ~GraphReady(dstate)
    /\ cancelled' = TRUE
    /\ dstate' = [f \in Functions |->
                    IF dstate[f] \in Terminated THEN dstate[f] ELSE "cancelled"]
    /\ derr' = [f \in Functions |->
                  IF dstate[f] \in InFlight THEN Cancelled ELSE derr[f]]
    /\ recorded' = [f \in Functions |->
                      IF dstate[f] \in InFlight THEN "failure" ELSE recorded[f]]
    /\ descriptor' = [f \in Functions |-> FALSE]
    /\ container' = [f \in Functions |-> CancelContainer(container[f])]
    /\ UNCHANGED <<waited, graphBuilds, provisioned, deps>>
    /\ UNCHANGED notDiscoveryVars

\* The orchestrator builds the dependency graph from the functions' records.
BuildGraph ==
    /\ ~cancelled
    /\ graphBuilds = 0
    /\ GraphReady(dstate)
    /\ graphBuilds' = graphBuilds + 1
    /\ UNCHANGED <<dstate, descriptor, container, waited, derr, recorded,
                   cancelled, provisioned, deps>>
    /\ UNCHANGED notDiscoveryVars

\* Provisioning takes the graph the orchestrator produced.
Provision ==
    /\ graphBuilds > 0
    /\ ~provisioned
    /\ provisioned' = TRUE
    /\ UNCHANGED <<dstate, descriptor, container, waited, derr, recorded,
                   cancelled, graphBuilds, deps>>
    /\ UNCHANGED notDiscoveryVars

DiscoveryNext ==
    \/ \E f \in Functions : BeginBuild(f)
    \/ \E f \in Functions, ok \in BOOLEAN : FinishBuild(f, ok)
    \/ \E f \in Functions, req \in DiscoveryDeclares : ContainerDeclare(f, req)
    \/ \E f \in Functions, m \in Messages : SessionMessage(f, m)
    \/ \E f \in Functions : Tick(f)
    \/ \E f \in Functions : SessionTimeout(f)
    \/ \E f \in Functions : RecordFunction(f)
    \/ Cancel
    \/ BuildGraph
    \/ Provision

\* Time advances, an expired wait is acted on, a closed session is recorded,
\* and the graph is built once it can be.
DiscoveryFairness ==
    /\ \A f \in Functions :
          /\ WF_vars(Tick(f))
          /\ WF_vars(SessionTimeout(f))
          /\ WF_vars(RecordFunction(f))
    /\ WF_vars(BuildGraph)

(***************************************************************************)
(* The deployment apply command: package deployment.                       *)
(***************************************************************************)
\* The calls of deploymentApplyCmd's Run whose error it checks.
Collaborators == {"target.FromOptions", "stack.FromOptions",
                  "stack.FromGlobArgs", "codeconfig.Populate",
                  "provider.NewProvider", "build.Create", "Apply"}

\* CheckErr letting the command go on after an error.
CheckErr_Ignore(ok, next) == next

\* cobra.CheckErr: on an error the command exits, otherwise it goes on to next.
CheckErr(ok, next) == IF ok THEN next ELSE "exit"

DeployIdle ==
    /\ cmdArgs = 0
    /\ cmdEnv = [c \in Collaborators |-> TRUE]
    /\ cmdPc = "idle"
    /\ cmdCalls = << >>
    /\ cmdExit = 0

\* The command is started with some handler globs, in an environment where
\* each collaborator either succeeds or returns an error.
DeployInit ==
    /\ cmdArgs \in 0..MaxArgs
    /\ cmdEnv \in [Collaborators -> BOOLEAN]
    /\ cmdPc = "target.FromOptions"
    /\ cmdCalls = << >>
    /\ cmdExit = 0

\* The command has called collaborator c and checks its error with CheckErr
\* before going on to next.
CallThen(c, next) ==
    /\ cmdCalls' = Append(cmdCalls, c)
    /\ cmdPc' = CheckErr(cmdEnv[c], next)
    /\ cmdExit' = IF CheckErr(cmdEnv[c], next) = "exit" THEN 1 ELSE cmdExit
    /\ UNCHANGED <<cmdArgs, cmdEnv>>
    /\ UNCHANGED notDeployVars

TargetFromOptions ==
    /\ cmdPc = "target.FromOptions"
    /\ CallThen("target.FromOptions", "stack.FromOptions")

\* StackFromOptions reading the stack from the globs and populating it from
\* code whatever stack.FromOptions returned.
StackFromOptions_AlwaysPopulate ==
    /\ cmdPc = "stack.FromOptions"
    /\ cmdCalls' = Append(cmdCalls, "stack.FromOptions")
    /\ cmdPc' = "stack.FromGlobArgs"
    /\ UNCHANGED <<cmdArgs, cmdEnv, cmdExit>>
    /\ UNCHANGED notDeployVars

\* stack.FromOptions: its error is checked only when no handler glob was
\* given; with globs the stack is read from them and populated from code.
StackFromOptions ==
    /\ cmdPc = "stack.FromOptions"
    /\ cmdCalls' = Append(cmdCalls, "stack.FromOptions")
    /\ LET to == IF ~cmdEnv["stack.FromOptions"] /\ cmdArgs > 0
                 THEN "stack.FromGlobArgs"
                 ELSE CheckErr(cmdEnv["stack.FromOptions"],
                               "provider.NewProvider")
       IN /\ cmdPc' = to
          /\ cmdExit' = IF to = "exit" THEN 1 ELSE cmdExit
    /\ UNCHANGED <<cmdArgs, cmdEnv>>
    /\ UNCHANGED notDeployVars

StackFromGlobArgs ==
    /\ cmdPc = "stack.FromGlobArgs"
    /\ CallThen("stack.FromGlobArgs", "codeconfig.Populate")

Populate ==
    /\ cmdPc = "codeconfig.Populate"
    /\ CallThen("codeconfig.Populate", "provider.NewProvider")

NewProvider ==
    /\ cmdPc = "provider.NewProvider"
    /\ CallThen("provider.NewProvider", "build.Create")

BuildCreate ==
    /\ cmdPc = "build.Create"
    /\ CallThen("build.Create", "Apply")

Apply ==
    /\ cmdPc = "Apply"
    /\ CallThen("Apply", "done")

DeployNext ==
    \/ TargetFromOptions
    \/ StackFromOptions
    \/ StackFromGlobArgs
    \/ Populate
    \/ NewProvider
    \/ BuildCreate
    \/ Apply

(***************************************************************************)
(* The providers' topic triggers: newLambda (aws), newContainerApp (azure).*)
(***************************************************************************)
Providers == {"aws", "azure"}
TopicNames == {"t1", "t2"}

ProviderIdle ==
    /\ prov = "none"
    /\ ptriggers = << >>
    /\ ptopics = {}
    /\ pfault = "none"
    /\ ppc = "idle"
    /\ pidx = 0
    /\ pwarnings = << >>
    /\ psubs = {}
    /\ perr = "none"

\* The compute resource has been created and the loop over the function's
\* topic triggers begins: args.Compute.Unit().Triggers.Topics, args.Topics.
ProviderInit ==
    /\ prov \in Providers
    /\ ptriggers \in SeqsUpTo(TopicNames, MaxTriggers)
    /\ ptopics \in SUBSET TopicNames
    /\ pfault \in TopicNames \cup {"none"}
    /\ ppc = "topics"
    /\ pidx = 1
    /\ pwarnings = << >>
    /\ psubs = {}
    /\ perr = "none"

\* One iteration of newLambda's loop: a topic of the stack gets a permission
\* and a subscription, whose error is returned; a missing one gets a warning.
LambdaTopic ==
    /\ prov = "aws"
    /\ ppc = "topics"
    /\ pidx <= Len(ptriggers)
    /\ LET tn == ptriggers[pidx]
       IN IF tn \in ptopics
          THEN IF pfault = tn
               THEN /\ perr' = "error"
                    /\ ppc' = "done"
                    /\ UNCHANGED <<psubs, pwarnings, pidx>>
               ELSE /\ psubs' = psubs \cup {tn}
                    /\ pidx' = pidx + 1
                    /\ UNCHANGED <<perr, ppc, pwarnings>>
          ELSE /\ pwarnings' = Append(pwarnings, tn)
               /\ pidx' = pidx + 1
               /\ UNCHANGED <<perr, ppc, psubs>>
    /\ UNCHANGED <<prov, ptriggers, ptopics, pfault>>
    /\ UNCHANGED notProviderVars

\* One iteration of newContainerApp's loop: a topic of the stack is noted as a
\* required subscription; for a missing one nothing is done.
ContainerAppTopic ==
    /\ prov = "azure"
    /\ ppc = "topics"
    /\ pidx <= Len(ptriggers)
    /\ LET tn == ptriggers[pidx]
       IN psubs' = IF tn \in ptopics THEN psubs \cup {tn} ELSE psubs
    /\ pidx' = pidx + 1
    /\ UNCHANGED <<prov, ptriggers, ptopics, pfault, ppc, pwarnings, perr>>
    /\ UNCHANGED notProviderVars

\* After the loop the resource's outputs are registered and it is returned.
RegisterOutputs ==
    /\ ppc = "topics"
    /\ pidx > Len(ptriggers)
    /\ ppc' = "done"
    /\ UNCHANGED <<prov, ptriggers, ptopics, pfault, pidx, pwarnings, psubs,
                   perr>>
    /\ UNCHANGED notProviderVars

ProviderNext ==
    \/ LambdaTopic
    \/ ContainerAppTopic
    \/ RegisterOutputs

(***************************************************************************)
(* The alias commands: addAliases.                                         *)
(***************************************************************************)
\* Strings are sequences of characters, words are strings without a space.
AliasNames == {"up", "ls"}
AliasStrings == {<<"s", " ", "u">>, <<"d", " ", "a", "p">>, <<"v">>}
UserWords == {<<"x">>}
\* os.Args[0], the program.
Program == <<"n", "i", "t", "r", "i", "c">>
\* Whether the build gives each iteration of a range loop a variable of its
\* own (Go 1.22 and later) or one variable to the whole loop (before).
LoopSemantics == {"perIteration", "shared"}

\* All orders in which the keys of a map may be ranged over.
Orders(S) == {o \in SeqsUpTo(S, Cardinality(S)) :
                Len(o) = Cardinality(S) /\ Range(o) = S}

RECURSIVE SplitFrom(_, _, _)
\* strings.Split on sep of the rest of str from position k, `word` being the
\* characters read since the last separator.
SplitFrom(str, k, word) ==
    IF k > Len(str) THEN <<word>>
    ELSE IF str[k] = " "
         THEN <<word>> \o SplitFrom(str, k + 1, << >>)
         ELSE SplitFrom(str, k + 1, Append(word, str[k]))

\* strings.Split(str, " ").
Split(str) == SplitFrom(str, 1, << >>)

\* A closure that has no command.
NoClosure == [ref |-> FALSE, val |-> << >>, set |-> FALSE]

AliasIdle ==
    /\ aliases = << >>
    /\ aorder = << >>
    /\ loopSem = "perIteration"
    /\ apc = "idle"
    /\ aidx = 0
    /\ aliasString = << >>
    /\ acmds = [n \in AliasNames |-> NoClosure]
    /\ ran = "none"
    /\ aargs = << >>
    /\ osArgs = << >>

\* addAliases is called with the aliases of the configuration decoded.
AliasInit ==
    /\ \E D \in SUBSET AliasNames :
          /\ aliases \in [D -> AliasStrings]
          /\ aorder \in Orders(D)
    /\ loopSem \in LoopSemantics
    /\ apc = "loop"
    /\ aidx = 1
    /\ aliasString = << >>
    /\ acmds = [n \in AliasNames |-> NoClosure]
    /\ ran = "none"
    /\ aargs = << >>
    /\ osArgs = << >>

\* One iteration of the range loop: the loop variable takes the alias's
\* string, and a command named n is added whose Run closure refers to the loop
\* variable (its own copy when each iteration has one).
AddAliasCommand ==
    /\ apc = "loop"
    /\ aidx <= Len(aorder)
    /\ LET n == aorder[aidx]
       IN /\ aliasString' = aliases[n]
          /\ acmds' = [acmds EXCEPT ![n] =
                         IF loopSem = "perIteration"
                         THEN [ref |-> FALSE, val |-> aliases[n], set |-> TRUE]
                         ELSE [ref |-> TRUE, val |-> << >>, set |-> TRUE]]
    /\ aidx' = aidx + 1
    /\ UNCHANGED <<aliases, aorder, loopSem, apc, ran, aargs, osArgs>>
    /\ UNCHANGED notAliasVars

\* The loop is over and addAliases returns.
AliasesAdded ==
    /\ apc = "loop"
    /\ aidx > Len(aorder)
    /\ apc' = "ready"
    /\ UNCHANGED <<aliases, aorder, loopSem, aidx, aliasString, acmds, ran,
                   aargs, osArgs>>
    /\ UNCHANGED notAliasVars

\* The user runs alias n with args: its Run closure builds the new os.Args
\* from os.Args[0], the words of the alias string it holds, and args, and the
\* root command is executed again.
RunAlias(n, args) ==
    /\ apc = "ready"
    /\ acmds[n].set
    /\ ran' = n
    /\ aargs' = args
    /\ osArgs' = <<Program>>
                   \o Split(IF acmds[n].ref THEN aliasString ELSE acmds[n].val)
                   \o args
    /\ apc' = "ran"
    /\ UNCHANGED <<aliases, aorder, loopSem, aidx, aliasString, acmds>>
    /\ UNCHANGED notAliasVars

AliasNext ==
    \/ AddAliasCommand
    \/ AliasesAdded
    \/ \E n \in AliasNames, args \in SeqsUpTo(UserWords, MaxUserArgs) :
          RunAlias(n, args)

(***************************************************************************)
(* Listing the images of a project: build.List.                            *)
(***************************************************************************)
ListFunctions == {"f1", "f2"}
ListContainers == {"c1"}
ListComponents == ListFunctions \cup ListContainers

\* What cr.ListImages may return for component x: an error (whatever images
\* come with it), or the images of x, of which there may be none.
ListOutcomes(x) ==
    {[err |-> e, imgs |-> i] : e \in BOOLEAN, i \in {<< >>, <<x>>}}

\* One iteration of either loop of List over component x, whose listing
\* returned out: an error losing the images collected so far.
ListIteration_DropOnError(x, out, images, printed) ==
    IF out.err
    THEN [images |-> << >>, printed |-> printed \cup {x}]
    ELSE [images |-> images \o out.imgs, printed |-> printed]

\* One iteration of either loop of List over component x, whose listing
\* returned out: an error is printed and the loop goes on, images are appended.
ListIteration(x, out, images, printed) ==
    IF out.err
    THEN [images |-> images, printed |-> printed \cup {x}]
    ELSE [images |-> images \o out.imgs, printed |-> printed]

ListIdle ==
    /\ lproject = [functions |-> {}, containers |-> {}]
    /\ lengine = TRUE
    /\ lout = [x \in ListComponents |-> [err |-> FALSE, imgs |-> << >>]]
    /\ lpc = "idle"
    /\ ltodo = {}
    /\ limages = << >>
    /\ lprinted = {}
    /\ lret = [images |-> << >>, err |-> FALSE, set |-> FALSE]

\* List is called with a project; the engine and what it will answer for each
\* component are drawn here.
ListInit ==
    /\ lproject \in [functions : SUBSET ListFunctions,
                     containers : SUBSET ListContainers]
    /\ lengine \in BOOLEAN
    /\ lout \in [ListComponents -> UNION {ListOutcomes(x) : x \in ListComponents}]
    /\ \A x \in ListComponents :
          /\ lout[x] \in ListOutcomes(x)
          /\ x \notin lproject.functions \cup lproject.containers
                => lout[x] = [err |-> FALSE, imgs |-> << >>]
    /\ lpc = "discover"
    /\ ltodo = {}
    /\ limages = << >>
    /\ lprinted = {}
    /\ lret = [images |-> << >>, err |-> FALSE, set |-> FALSE]

\* containerengine.Discover(): its error is returned with no images.
ListDiscover ==
    /\ lpc = "discover"
    /\ IF lengine
       THEN /\ lpc' = "functions"
            /\ ltodo' = lproject.functions
            /\ lret' = lret
       ELSE /\ lpc' = "done"
            /\ ltodo' = ltodo
            /\ lret' = [images |-> << >>, err |-> TRUE, set |-> TRUE]
    /\ UNCHANGED <<lproject, lengine, lout, limages, lprinted>>
    /\ UNCHANGED notListVars

\* An iteration of the loop named by lpc over x, one of the components left.
ListLoopStep(x) ==
    /\ x \in ltodo
    /\ LET it == ListIteration(x, lout[x], limages, lprinted)
       IN /\ limages' = it.images
          /\ lprinted' = it.printed
    /\ ltodo' = ltodo \ {x}
    /\ UNCHANGED <<lproject, lengine, lout, lpc, lret>>
    /\ UNCHANGED notListVars

\* for _, f := range s.Functions
ListFunction(f) ==
    /\ lpc = "functions"
    /\ ListLoopStep(f)

\* The first loop is over and the second begins.
ListFunctionsDone ==
    /\ lpc = "functions"
    /\ ltodo = {}
    /\ lpc' = "containers"
    /\ ltodo' = lproject.containers
    /\ UNCHANGED <<lproject, lengine, lout, limages, lprinted, lret>>
    /\ UNCHANGED notListVars

\* for _, c := range s.Containers
ListContainer(c) ==
    /\ lpc = "containers"
    /\ ListLoopStep(c)

\* return images, nil
ListReturn ==
    /\ lpc = "containers"
    /\ ltodo = {}
    /\ lpc' = "done"
    /\ lret' = [images |-> limages, err |-> FALSE, set |-> TRUE]
    /\ UNCHANGED <<lproject, lengine, lout, ltodo, limages, lprinted>>
    /\ UNCHANGED notListVars

ListNext ==
    \/ ListDiscover
    \/ \E f \in ListFunctions : ListFunction(f)
    \/ ListFunctionsDone
    \/ \E c \in ListContainers : ListContainer(c)
    \/ ListReturn

(***************************************************************************)
(* The Azure provider's document store: newMongoCollections.               *)
(***************************************************************************)
Regions == {"eastus", "canadacentral", "northeurope", "westus"}
MongoCollectionNames == {"k1", "k2"}
\* The calls of newMongoCollections that may return an error.
MongoFaults == {"none", "register", "account", "db", "collection", "outputs"}

\* A pulumi input: the output of a resource, or a plain string.
Output(r) == [kind |-> "output", val |-> r]
String(r) == [kind |-> "string", val |-> r]

\* documentdb.LocationArgs
LocationArgs(priority, name) ==
    [FailoverPriority |-> priority, IsZoneRedundant |-> FALSE,
     LocationName |-> name]

\* The locals primaryGeo and secondaryGeo; the inputs are compared as Go
\* compares interface values, the kind with the value.
GeoLocals(location) ==
    LET primaryGeo == LocationArgs(0, location)
        secondaryGeo == LocationArgs(1, String("canadacentral"))
    IN <<primaryGeo,
         IF primaryGeo.LocationName = secondaryGeo.LocationName
         THEN LocationArgs(1, String("northeurope"))
         ELSE secondaryGeo>>

\* The Locations of the DatabaseAccountArgs.
AccountLocations(location) ==
    <<LocationArgs(0, location), LocationArgs(1, String("eastus"))>>

NoAccount == [set |-> FALSE, Location |-> String(""), Locations |-> << >>]
NoMongoReturn == [set |-> FALSE, err |-> "none"]

MongoIdle ==
    /\ mlocation = Output("eastus")
    /\ mproj = {}
    /\ mfault = "none"
    /\ mpc = "idle"
    /\ mgeo = << >>
    /\ maccount = NoAccount
    /\ mdb = FALSE
    /\ mcollections = {}
    /\ mret = NoMongoReturn

\* newMongoCollections is called with a resource group, for a project with
\* some collections; the call that will fail, if any, is drawn here.
MongoInit ==
    /\ mlocation \in {Output(r) : r \in Regions}
    /\ mproj \in SUBSET MongoCollectionNames
    /\ mfault \in MongoFaults
    /\ mpc = "register"
    /\ mgeo = << >>
    /\ maccount = NoAccount
    /\ mdb = FALSE
    /\ mcollections = {}
    /\ mret = NoMongoReturn

\* ctx.RegisterComponentResource, then the two locals.
MongoRegister ==
    /\ mpc = "register"
    /\ IF mfault = "register"
       THEN /\ mpc' = "done"
            /\ mret' = [set |-> TRUE, err |-> "register"]
            /\ mgeo' = mgeo
       ELSE /\ mpc' = "account"
            /\ mret' = mret
            /\ mgeo' = GeoLocals(mlocation)
    /\ UNCHANGED <<mlocation, mproj, mfault, maccount, mdb, mcollections>>
    /\ UNCHANGED notMongoVars

\* documentdb.NewDatabaseAccount
MongoAccount ==
    /\ mpc = "account"
    /\ IF mfault = "account"
       THEN /\ mpc' = "done"
            /\ mret' = [set |-> TRUE, err |-> "cosmosdb account"]
            /\ maccount' = maccount
       ELSE /\ mpc' = "db"
            /\ mret' = mret
            /\ maccount' = [set |-> TRUE, Location |-> mlocation,
                            Locations |-> AccountLocations(mlocation)]
    /\ UNCHANGED <<mlocation, mproj, mfault, mgeo, mdb, mcollections>>
    /\ UNCHANGED notMongoVars

\* documentdb.NewMongoDBResourceMongoDBDatabase
MongoDatabase ==
    /\ mpc = "db"
    /\ IF mfault = "db"
       THEN /\ mpc' = "done"
            /\ mret' = [set |-> TRUE, err |-> "mongo db"]
            /\ mdb' = mdb
       ELSE /\ mpc' = "collections"
            /\ mret' = mret
            /\ mdb' = TRUE
    /\ UNCHANGED <<mlocation, mproj, mfault, mgeo, maccount, mcollections>>
    /\ UNCHANGED notMongoVars

\* One iteration of the loop over the project's collections.
MongoCollection(k) ==
    /\ mpc = "collections"
    /\ k \in mproj \ mcollections
    /\ IF mfault = "collection"
       THEN /\ mpc' = "done"
            /\ mret' = [set |-> TRUE, err |-> "mongo collection"]
            /\ mcollections' = mcollections
       ELSE /\ mpc' = mpc
            /\ mret' = mret
            /\ mcollections' = mcollections \cup {k}
    /\ UNCHANGED <<mlocation, mproj, mfault, mgeo, maccount, mdb>>
    /\ UNCHANGED notMongoVars

\* The loop is over: the connection string is set up and the outputs are
\* registered, whose error is the function's.
MongoOutputs ==
    /\ mpc = "collections"
    /\ mproj = mcollections
    /\ mpc' = "done"
    /\ mret' = [set |-> TRUE,
                err |-> IF mfault = "outputs" THEN "outputs" ELSE "none"]
    /\ UNCHANGED <<mlocation, mproj, mfault, mgeo, maccount, mdb, mcollections>>
    /\ UNCHANGED notMongoVars

MongoNext ==
    \/ MongoRegister
    \/ MongoAccount
    \/ MongoDatabase
    \/ \E k \in MongoCollectionNames : MongoCollection(k)
    \/ MongoOutputs

(***************************************************************************)
(* The specifications: each part of the program run with the others idle.  *)
(***************************************************************************)
\* The capture server serving its clients.
CaptureStart == CaptureInit /\ BuildIdle /\ MergeIdle /\ DiscoveryIdle /\ DeployIdle
    /\ ProviderIdle
    /\ AliasIdle
    /\ ListIdle
    /\ MongoIdle
SpecCapture == CaptureStart /\ [][CaptureNext]_vars

\* A call of build.Create or build.CreateBaseDev in a loaded project.
BuildStart == BuildInit /\ CaptureIdle /\ MergeIdle /\ DiscoveryIdle /\ DeployIdle
    /\ ProviderIdle
    /\ AliasIdle
    /\ ListIdle
    /\ MongoIdle
SpecBuild == BuildStart /\ [][BuildNext]_vars

\* The merge of a sequence of claims.
MergeStart == MergeInit /\ CaptureIdle /\ BuildIdle /\ DiscoveryIdle /\ DeployIdle
    /\ ProviderIdle
    /\ AliasIdle
    /\ ListIdle
    /\ MongoIdle
SpecMerge == MergeStart /\ [][MergeNext]_vars

\* A run of the deployment apply command.
DeployStart ==
    DeployInit /\ CaptureIdle /\ BuildIdle /\ MergeIdle /\ DiscoveryIdle
    /\ ProviderIdle
    /\ AliasIdle
    /\ ListIdle
    /\ MongoIdle
SpecDeploy == DeployStart /\ [][DeployNext]_vars

\* A provider going through the topic triggers of one function.
ProviderStart ==
    ProviderInit /\ CaptureIdle /\ BuildIdle /\ MergeIdle /\ DiscoveryIdle
    /\ DeployIdle
    /\ AliasIdle
    /\ ListIdle
    /\ MongoIdle
SpecProvider == ProviderStart /\ [][ProviderNext]_vars

\* The alias commands being added and one of them run.
AliasStart ==
    AliasInit /\ CaptureIdle /\ BuildIdle /\ MergeIdle /\ DiscoveryIdle
    /\ DeployIdle /\ ProviderIdle
    /\ ListIdle
    /\ MongoIdle
SpecAlias == AliasStart /\ [][AliasNext]_vars

\* A call of build.List.
ListStart ==
    ListInit /\ CaptureIdle /\ BuildIdle /\ MergeIdle /\ DiscoveryIdle
    /\ DeployIdle /\ ProviderIdle /\ AliasIdle
    /\ MongoIdle
SpecList == ListStart /\ [][ListNext]_vars

\* A call of newMongoCollections.
MongoStart ==
    MongoInit /\ CaptureIdle /\ BuildIdle /\ MergeIdle /\ DiscoveryIdle
    /\ DeployIdle /\ ProviderIdle /\ AliasIdle /\ ListIdle
SpecMongo == MongoStart /\ [][MongoNext]_vars

\* A discovery run over the functions, time advancing.
DiscoveryStart == DiscoveryInit /\ CaptureIdle /\ BuildIdle /\ MergeIdle /\ DeployIdle
    /\ ProviderIdle
    /\ AliasIdle
    /\ ListIdle
    /\ MongoIdle
SpecDiscovery ==
    DiscoveryStart /\ [][DiscoveryNext]_vars /\ DiscoveryFairness

(***************************************************************************)
(* The claims about the capture server.                                    *)
(***************************************************************************)
FirstMessage(i) == Head(streams[i].inbox)
FunctionOf(i) == server[streams[i].server].function

\* The accumulator a trigger worker is recorded with, and the field it fills.
AccumulatorOf(w) ==
    CASE w = "Api" -> "AddApiHandler"
      [] w = "Schedule" -> "AddScheduleHandler"
      [] w = "Subscription" -> "AddSubscriptionHandler"

WithBinding(fd, ir) ==
    CASE ir.worker = "Api" -> [fd EXCEPT !.apis = @ \cup {ir.name}]
      [] ir.worker = "Schedule" -> [fd EXCEPT !.schedules = @ \cup {ir.name}]
      [] ir.worker = "Subscription" ->
           [fd EXCEPT !.subscriptions = @ \cup {ir.name}]

\* C1: a TriggerStream session whose first received message is not an
\* InitRequest ends with the FailedPrecondition error ("first message must be
\* InitRequest"), calls no accumulator, and leaves every FunctionDependencies
\* as it was before the session's handler ran.
C1_NotInitRejected ==
    [][\A i \in StreamIds :
         (TriggerStream(i) /\ streams[i].inbox # << >> /\ ~FirstMessage(i).init)
         => /\ streams'[i].state = "CLOSED"
            /\ streams'[i].err = FailedPrecondition
            /\ streams'[i].calls = << >>
            /\ streams'[i].trace = <<"AWAIT_INIT", "CLOSED">>
            /\ deps' = deps]_vars

\* C1 witness: a session closed on a first message that was no InitRequest, for
\* a function that already had accumulated dependencies.
C1_Witness ==
    \E i \in StreamIds :
        /\ streams[i].state = "CLOSED"
        /\ streams[i].first = "NotInit"
        /\ streams[i].err = FailedPrecondition
        /\ deps[FunctionOf(i)] # EmptyDeps

\* C2: on an InitRequest of an Api, Schedule or Subscription worker the session
\* goes AWAIT_INIT, IDENTIFIED, CLOSED; the handler reads one message, calls the
\* one accumulator of the worker's role, which records the binding in the
\* server's function and nowhere else, and a closed stream is never read again.
C2_InitRecordedOnce ==
    /\ [][\A i \in StreamIds :
            (/\ TriggerStream(i)
             /\ streams[i].inbox # << >>
             /\ FirstMessage(i).init
             /\ FirstMessage(i).worker \in TriggerWorkers)
            => /\ streams'[i].trace = <<"AWAIT_INIT", "IDENTIFIED", "CLOSED">>
               /\ streams'[i].reads = 1
               /\ streams'[i].inbox = Tail(streams[i].inbox)
               /\ streams'[i].calls = <<AccumulatorOf(FirstMessage(i).worker)>>
               /\ deps' = [deps EXCEPT ![FunctionOf(i)] =
                                WithBinding(@, FirstMessage(i))]]_vars
    /\ [][\A i \in StreamIds :
            streams[i].state = "CLOSED" => streams'[i] = streams[i]]_vars

\* C2 witness: a stream closed after an Api InitRequest, its binding recorded,
\* with a second message of the client left unread.
C2_Witness ==
    \E i \in StreamIds :
        /\ streams[i].state = "CLOSED"
        /\ streams[i].first = "Api"
        /\ streams[i].reads = 1
        /\ streams[i].inbox # << >>
        /\ deps[FunctionOf(i)].apis # {}

\* C3: on an InitRequest that names neither an Api, a Schedule nor a
\* Subscription the handler calls no accumulator, changes no
\* FunctionDependencies, and closes the stream without an error.
C3_PlainWorkerNoBinding ==
    [][\A i \in StreamIds :
         (/\ TriggerStream(i)
          /\ streams[i].inbox # << >>
          /\ FirstMessage(i).init
          /\ FirstMessage(i).worker \notin TriggerWorkers)
         => /\ streams'[i].state = "CLOSED"
            /\ streams'[i].err = OK
            /\ streams'[i].calls = << >>
            /\ deps' = deps]_vars

\* C3 witness: a stream closed without error after a plain InitRequest.
C3_Witness ==
    \E i \in StreamIds :
        /\ streams[i].state = "CLOSED"
        /\ streams[i].first = "Plain"
        /\ streams[i].err = OK
        /\ streams[i].trace = <<"AWAIT_INIT", "IDENTIFIED", "CLOSED">>

\* C4: a Declare whose resource type is none of Bucket, Collection, Queue,
\* Topic, Policy, Secret, Api returns an error to the caller and leaves the
\* function's accumulated declarations unchanged.
C4_UnsupportedKindRejected ==
    [][\A s \in Servers, req \in DeclareRequests :
         (Declare(s, req) /\ req.type \notin DeclaredTypes)
         => (last'.err # OK /\ deps' = deps)]_vars

\* C4, the part the code keeps: such a Declare changes no FunctionDependencies.
C4_UnsupportedKindIgnored ==
    [][\A s \in Servers, req \in DeclareRequests :
         (Declare(s, req) /\ req.type \notin DeclaredTypes)
         => (last'.err = OK /\ last'.calls = << >> /\ deps' = deps)]_vars

\* C4 witness: a Declare of an unsupported type answered, after declarations
\* of the same function had been accumulated.
C4_Witness ==
    /\ last.op = "Declare"
    /\ last.type \notin DeclaredTypes
    /\ \E f \in Functions : deps[f].buckets # {}

\* C11: a Declare of a (type, name) the function already holds with the same
\* metadata succeeds and leaves every FunctionDependencies as it was.
C11_RedeclareNoOp ==
    [][(last'.op = "Declare" /\ last'.known) =>
         \A s \in Servers, req \in DeclareRequests :
            (HasEntry(deps[server[s].function], req) /\ Declare(s, req))
            => (last'.err = OK /\ deps' = deps)]_vars

\* C11 witness: a declaration the function already held was declared again and
\* answered without error, the function holding the one entry.
C11_Witness ==
    /\ last.op = "Declare"
    /\ last.known
    /\ last.err = OK
    /\ last.type = "Bucket"
    /\ \E f \in Functions : Cardinality(deps[f].buckets) = 1

\* C12: Details answers with connection details only for a resource its
\* function has declared, and with an error for every resource (unknown type
\* or undeclared name) the function has not declared.
C12_DetailsOnlyDeclared ==
    [][\A s \in Servers, req \in DetailsRequests :
         Details(s, req)
         => ((last'.err = OK) <=>
               IsDeclared(deps[server[s].function], req.type, req.name))]_vars

\* C12, what the code does: Details answers by the resource type alone.
C12_DetailsByTypeOnly ==
    [][\A s \in Servers, req \in DetailsRequests :
         Details(s, req)
         => /\ (last'.err = OK) <=> (req.type = "Api")
            /\ last'.err = OK => last'.id = req.name
            /\ deps' = deps]_vars

\* C12 witness: Details answered for an Api that no declaration had named.
C12_Witness ==
    /\ last.op = "Details"
    /\ last.type = "Api"
    /\ ~last.known
    /\ last.err = OK

\* Whether an InitRequest has been received on a stream of server s, and
\* whether a stream of server s has reached CLOSED.
Handshaken(s) ==
    \E i \in StreamIds :
        /\ streams[i].server = s
        /\ streams[i].state = "CLOSED"
        /\ streams[i].first \in InitWorkers
SessionClosed(s) ==
    \E i \in StreamIds : streams[i].server = s /\ streams[i].state = "CLOSED"

\* A step that is a call of Server.Declare: a unary call, which leaves the
\* streams alone, answered as a Declare.
DeclareStep == ops' = ops + 1 /\ streams' = streams /\ last'.op = "Declare"

C18_ReadOnlyAfterClose ==
    [][\A s \in Servers :
         SessionClosed(s) =>
            deps'[server[s].function] = deps[server[s].function]]_vars

\* The accumulators that belong to a resource type, in the order called.
AccumulatorsFor(type) ==
    CASE type = "Bucket" -> <<"AddBucket">>
      [] type = "Collection" -> <<"AddCollection">>
      [] type = "Queue" -> <<"AddQueue">>
      [] type = "Topic" -> <<"AddTopic">>
      [] type = "Secret" -> <<"AddSecret">>
      [] type = "Policy" -> <<"AddPolicy">>
      [] type = "Api" -> <<"AddApiSecurityDefinitions", "AddApiSecurity">>
      [] OTHER -> << >>

\* The fields of a FunctionDependencies that hold the declarations of a type.
FieldsFor(type) ==
    CASE type = "Bucket" -> {"buckets"}
      [] type = "Collection" -> {"collections"}
      [] type = "Queue" -> {"queues"}
      [] type = "Topic" -> {"topics"}
      [] type = "Secret" -> {"secrets"}
      [] type = "Policy" -> {"policies"}
      [] type = "Api" -> {"apiSecurityDefinitions", "apiSecurity"}
      [] OTHER -> {}

FunctionIds == 1..Len(project.functions)
\* A handler that resolves to a runtime and that nothing makes fail.
WouldSucceed(h) == NewRunTimeFromHandler(h) /\ h.fault = "none"
\* The image a finished call owes a handler that would succeed.
ImageOf(i) == IF routine = "Create" THEN <<"function", i>>
              ELSE <<"dev", Lang(project.functions[i])>>
\* The functions the returned error names.
Reported == IF berr.fn = 0 THEN {} ELSE {berr.fn}
Returned == bpc = "done" /\ berr.kind # "discover"

\* C5: when a build call has returned, every function that would build
\* successfully has its image built, whichever function before or after it
\* failed, and a failing function has its error recorded.
C5_ContinuesPastFailure ==
    Returned =>
        /\ \A i \in FunctionIds :
              WouldSucceed(project.functions[i]) => ImageOf(i) \in built
        /\ (\E i \in FunctionIds : ~WouldSucceed(project.functions[i]))
              => berr # NoErr

\* C5, what the code does: the functions before the first failing one are
\* built, that failure is the error returned, and no later function is built.
C5_StopsAtFirstFailure ==
    (Returned /\ routine = "Create" /\ berr.kind \notin {"nil", "container"}) =>
        /\ ~WouldSucceed(project.functions[berr.fn])
        /\ \A i \in FunctionIds :
              (<<"function", i>> \in built) <=> (i < berr.fn)

\* C5 witness: Create returned the error of the first function, a later
\* function that would have built successfully is not built.
C5_Witness ==
    /\ Returned
    /\ routine = "Create"
    /\ berr.fn = 1
    /\ Len(project.functions) = 2
    /\ WouldSucceed(project.functions[2])
    /\ <<"function", 2>> \notin built

\* C6: when Create has returned after processing its functions (containers
\* aside), it returns an error exactly if some function fails, and the error
\* names every failing function.
C6_AllFailuresReported ==
    (Returned /\ routine = "Create" /\ berr.kind # "container") =>
        /\ (berr # NoErr) <=>
              (\E i \in FunctionIds : ~WouldSucceed(project.functions[i]))
        /\ Reported = {i \in FunctionIds : ~WouldSucceed(project.functions[i])}

\* C6 witness: Create returned one error although two functions fail.
C6_Witness ==
    /\ Returned
    /\ routine = "Create"
    /\ Reported = {1}
    /\ Len(project.functions) = 2
    /\ ~WouldSucceed(project.functions[2])

\* C7: once Create or CreateBaseDev has returned, none of the descriptor files
\* the call created is left in the project directory, on whatever path it
\* returned.
C7_DescriptorsRemoved ==
    bpc = "done" => \A e \in fs : e.name \notin created

\* C7 witness: a call returned the build error of its second handler after
\* creating two descriptors, and the directory holds neither.
C7_Witness ==
    /\ bpc = "done"
    /\ berr = Err("build", 2)
    /\ Cardinality(created) = 2
    /\ fs = {}

\* The engine builds invoked for the dev image of language l.
DevBuilds(l) ==
    {k \in 1..Len(engineBuilds) : engineBuilds[k] = <<"dev", l>>}

\* A step that is one iteration of the loop over s.Functions.
FunctionStepTaken == bpc = "functions" /\ <<bpc, idx>>' # <<bpc, idx>>

\* C22: CreateBaseDev never invokes the engine's build twice for one language;
\* when it has returned without error it has invoked it exactly once for each
\* distinct extension of the handlers and for nothing else; and the iteration
\* for a handler whose language is already in imagesToBuild creates no
\* descriptor and invokes no build.
C22_DevImageOncePerLanguage ==
    /\ [](routine = "CreateBaseDev" =>
            \A l \in Exts : Cardinality(DevBuilds(l)) <= 1)
    /\ []((routine = "CreateBaseDev" /\ bpc = "done" /\ berr = NoErr) =>
            /\ \A l \in Exts :
                  Cardinality(DevBuilds(l)) =
                     IF \E i \in FunctionIds : Lang(project.functions[i]) = l
                     THEN 1 ELSE 0
            /\ Len(engineBuilds) =
                  Cardinality({Lang(project.functions[i]) : i \in FunctionIds}))
    /\ [][(/\ FunctionStepTaken
           /\ routine = "CreateBaseDev"
           /\ Lang(project.functions[idx]) \in imagesToBuild)
          => /\ engineBuilds' = engineBuilds
             /\ deferred' = deferred
             /\ created' = created
             /\ \A e \in fs' \ fs : e.owner # idx
             /\ berr' = NoErr]_vars

\* C22 witness: CreateBaseDev returned without error for two handlers of one
\* language after a single build and a single descriptor.
C22_Witness ==
    /\ routine = "CreateBaseDev"
    /\ bpc = "done"
    /\ berr = NoErr
    /\ Len(project.functions) = 2
    /\ Lang(project.functions[1]) = Lang(project.functions[2])
    /\ Len(engineBuilds) = 1
    /\ Cardinality(created) = 1

Merged == IF again THEN Range(claimsIn) ELSE {claimsIn[k] : k \in 1..midx}
Keys(cs) == {<<c.kind, c.name>> : c \in cs}
PoliciesOf(cs, key) ==
    {<<c.fn, c.mode>> : c \in {d \in cs : <<d.kind, d.name>> = key}}

\* All orders of a sequence.
Perms(cs) ==
    {[k \in 1..Len(cs) |-> cs[p[k]]] :
        p \in {q \in [1..Len(cs) -> 1..Len(cs)] :
                  \A a, b \in 1..Len(cs) : a # b => q[a] # q[b]}}

\* C8: the graph holds exactly one resource for every (kind, name) some
\* function claimed, none for any other, and the resource's policy set is the
\* union of the (function, access mode) pairs of the claims made on it.
C8_OneResourcePerKey ==
    /\ \A key \in Keys(Merged) :
          /\ Cardinality({e \in graph : <<e.kind, e.name>> = key}) = 1
          /\ \A e \in graph :
                <<e.kind, e.name>> = key => e.policies = PoliciesOf(Merged, key)
    /\ \A e \in graph : <<e.kind, e.name>> \in Keys(Merged)

\* C8 witness: Bucket "uploads" claimed read by fA and write by fB is one
\* resource with both policies.
C8_Witness ==
    /\ midx = Len(claimsIn)
    /\ [kind |-> "Bucket", name |-> "uploads",
         policies |-> {<<"fA", "read">>, <<"fB", "write">>}] \in graph
    /\ Cardinality({e \in graph : e.kind = "Bucket" /\ e.name = "uploads"}) = 1

\* C9: a finished merge gave the graph that the merge of the same claims in
\* any other order gives, and merging the same claims again, in any order,
\* onto that graph leaves it as it is.
C9_MergeCommutativeIdempotent ==
    midx = Len(claimsIn) =>
        /\ \A cs \in Perms(claimsIn) :
              MergeAll({}, cs) = graph /\ MergeAll(graph, cs) = graph
        /\ again => graph = firstGraph

\* C9 witness: a second merge finished over three different claims, two of
\* them on the same resource from different functions.
C9_Witness ==
    /\ again
    /\ midx = Len(claimsIn)
    /\ Len(claimsIn) = 3
    /\ Cardinality(Range(claimsIn)) = 3
    /\ \E a, b \in Range(claimsIn) :
          a.kind = b.kind /\ a.name = b.name /\ a.fn # b.fn

(***************************************************************************)
(* The claims about the deployment apply command.                          *)
(***************************************************************************)
Called(c) == \E k \in 1..Len(cmdCalls) : cmdCalls[k] = c

\* C13: the provider's Apply is called only in a run where build.Create was
\* called and returned no error and where codeconfig.Populate, if it was
\* called, returned no error; a run in which either failed exits with a
\* failure code.
C13_NoApplyAfterFailure ==
    /\ Called("Apply") =>
          /\ Called("build.Create") /\ cmdEnv["build.Create"]
          /\ Called("codeconfig.Populate") => cmdEnv["codeconfig.Populate"]
    /\ \A c \in {"codeconfig.Populate", "build.Create"} :
          (Called(c) /\ ~cmdEnv[c]) => (cmdPc = "exit" /\ cmdExit = 1)

\* C13 witness: Populate succeeded, build.Create failed, and the command
\* exited without having called Apply.
C13_Witness ==
    /\ Called("codeconfig.Populate")
    /\ Called("build.Create")
    /\ ~cmdEnv["build.Create"]
    /\ cmdPc = "exit"
    /\ ~Called("Apply")

\* Whether call c was made before call d.
CalledBefore(c, d) ==
    \E j, k \in 1..Len(cmdCalls) :
        j < k /\ cmdCalls[j] = c /\ cmdCalls[k] = d

\* C24 as stated: a run that reaches build.Create has called
\* codeconfig.Populate before and seen it succeed.
C24_PopulateAlwaysFirst ==
    Called("build.Create") =>
        /\ CalledBefore("codeconfig.Populate", "build.Create")
        /\ cmdEnv["codeconfig.Populate"]

\* C24: codeconfig.Populate is called exactly in the runs where
\* stack.FromOptions failed, handler globs were given and stack.FromGlobArgs
\* succeeded; such a run reaches build.Create only after Populate succeeded,
\* and a run where stack.FromOptions succeeded reaches build.Create and Apply
\* without any discovery.
C24_PopulateOnlyForGlobs ==
    /\ Called("codeconfig.Populate") =>
          /\ ~cmdEnv["stack.FromOptions"]
          /\ cmdArgs > 0
          /\ cmdEnv["stack.FromGlobArgs"]
    /\ Called("build.Create") =>
          \/ cmdEnv["stack.FromOptions"] /\ ~Called("codeconfig.Populate")
          \/ /\ CalledBefore("codeconfig.Populate", "build.Create")
             /\ cmdEnv["codeconfig.Populate"]
    /\ (Called("stack.FromGlobArgs") /\ cmdEnv["stack.FromGlobArgs"]
          /\ cmdPc # "codeconfig.Populate") => Called("codeconfig.Populate")

\* C24 witness: a run whose stack.FromOptions succeeded called Apply without
\* codeconfig.Populate having been called.
C24_Witness ==
    /\ Called("Apply")
    /\ Called("build.Create")
    /\ ~Called("codeconfig.Populate")
    /\ cmdArgs > 0

(***************************************************************************)
(* The claims about the alias commands.                                    *)
(***************************************************************************)
\* C25: when an alias has been run, the new os.Args are the program, the
\* words of that alias's own string, and the user's arguments.
C25_AliasRunsOwnTarget ==
    apc = "ran" =>
        osArgs = <<Program>> \o Split(aliases[ran]) \o aargs

\* C25, what the code does: with one variable to the whole loop, every alias
\* runs the words of the alias ranged over last.
C25_SharedVariableRunsLast ==
    apc = "ran" =>
        osArgs = <<Program>>
                   \o Split(IF loopSem = "shared"
                            THEN aliases[aorder[Len(aorder)]]
                            ELSE aliases[ran])
                   \o aargs

\* C25 witness: of two aliases with different strings, the one ranged over
\* first was run and executed the words of the other.
C25_Witness ==
    /\ apc = "ran"
    /\ Len(aorder) = 2
    /\ ran = aorder[1]
    /\ aliases[aorder[1]] # aliases[aorder[2]]
    /\ osArgs = <<Program>> \o Split(aliases[aorder[2]]) \o aargs

(***************************************************************************)
(* The claims about build.List.                                            *)
(***************************************************************************)
\* The components of the project List was called with.
ListedComponents == lproject.functions \cup lproject.containers

\* C26: once the engine was discovered, List returns a nil error whatever
\* the listings of the components returned, and returns exactly the images of
\* every component whose listing did not fail; a failure is printed.
C26_ListToleratesFailures ==
    (lpc = "done" /\ lengine) =>
        /\ lret.set /\ ~lret.err
        /\ Range(lret.images) =
              UNION {Range(lout[x].imgs) :
                       x \in {y \in ListedComponents : ~lout[y].err}}
        /\ Len(lret.images) = Cardinality(Range(lret.images))
        /\ lprinted = {x \in ListedComponents : lout[x].err}

\* C26 witness: List returned with the listing of one component failed and
\* the image of another returned.
C26_Witness ==
    /\ lpc = "done"
    /\ lengine
    /\ \E x, y \in ListedComponents :
          /\ lout[x].err
          /\ ~lout[y].err
          /\ lout[y].imgs # << >>
          /\ y \in Range(lret.images)

(***************************************************************************)
(* The claims about newMongoCollections.                                   *)
(***************************************************************************)
\* C27: the database account has two geo locations, the first with failover
\* priority 0 in the resource group's location, the second with failover
\* priority 1 in another region.
C27_GeoLocationsDistinct ==
    maccount.set =>
        /\ Len(maccount.Locations) = 2
        /\ maccount.Locations[1].FailoverPriority = 0
        /\ maccount.Locations[1].LocationName = mlocation
        /\ maccount.Locations[2].FailoverPriority = 1
        /\ maccount.Locations[2].LocationName.val
              # maccount.Locations[1].LocationName.val

\* C27, what the code does: the secondary is always eastus, so the two
\* differ exactly when the resource group is elsewhere.
C27_SecondaryIsEastUS ==
    maccount.set =>
        /\ maccount.Locations[2].LocationName = String("eastus")
        /\ (maccount.Locations[2].LocationName.val
              # maccount.Locations[1].LocationName.val)
             <=> mlocation.val # "eastus"

(***************************************************************************)
(* The claims about the providers.                                         *)
(***************************************************************************)
\* The triggers of the function that name no topic of the stack.
Dangling == {ptriggers[k] : k \in 1..Len(ptriggers)} \ ptopics

\* C15: when a provider has gone through a function's topic triggers, every
\* trigger naming a topic the stack does not have has a warning, and such a
\* trigger alone never makes the provider return an error.
C15_DanglingWarned ==
    ppc = "done" =>
        /\ perr = "none" => Dangling \subseteq Range(pwarnings)
        /\ perr # "none" => pfault \in ptopics

\* C15, what the code does: newLambda warns of every dangling trigger it
\* passes, newContainerApp of none; neither fails because of one.
C15_OnlyLambdaWarns ==
    ppc = "done" =>
        /\ (prov = "aws" /\ perr = "none") => Range(pwarnings) = Dangling
        /\ prov = "azure" => pwarnings = << >> /\ perr = "none"
        /\ perr # "none" => pfault \in ptopics

\* C15 witness: newContainerApp returned without a warning for a trigger whose
\* topic the stack does not have.
C15_Witness ==
    /\ prov = "azure"
    /\ ppc = "done"
    /\ Dangling # {}
    /\ pwarnings = << >>

(***************************************************************************)
(* The claims about the discovery orchestrator.                            *)
(***************************************************************************)
\* C10: a session never waits for its first message beyond the bounded wait:
\* a waiting session always stops waiting; one that used up its wait is closed
\* with DiscoveryTimeout, its container killed and the function's dependencies
\* recorded as empty; and no session is timed out before its wait is used up.
C10_TimeoutClosesSession ==
    /\ [](\A f \in Functions :
            /\ dstate[f] = "awaiting" => waited[f] <= MaxWait
            /\ derr[f] = DiscoveryTimeout =>
                  /\ dstate[f] = "recorded"
                  /\ recorded[f] = "failure"
                  /\ container[f] = "killed"
                  /\ waited[f] = MaxWait
                  /\ deps[f] = EmptyDeps)
    /\ \A f \in Functions :
          (dstate[f] = "awaiting") ~> (dstate[f] # "awaiting")

\* C10 witness: a session that had accumulated a declaration timed out while
\* the other function's session closed on its InitRequest.
C10_Witness ==
    /\ derr["fA"] = DiscoveryTimeout
    /\ container["fA"] = "killed"
    /\ deps["fA"] = EmptyDeps
    /\ derr["fB"] = OK
    /\ deps["fB"] # EmptyDeps

\* C14: the dependency graph is built at most once, and only when every
\* function's discovery has terminated; an uncancelled run whose functions
\* have all terminated does build it; provisioning only ever takes a graph
\* that was built from all of them.
C14_GraphBuiltOnceWhenComplete ==
    /\ [](graphBuilds <= 1)
    /\ [](graphBuilds > 0 => \A f \in Functions : dstate[f] = "recorded")
    /\ [](provisioned =>
            graphBuilds = 1 /\ \A f \in Functions : dstate[f] = "recorded")
    /\ ((~cancelled /\ \A f \in Functions : dstate[f] \in Terminated)
            ~> (graphBuilds = 1))

\* C14 witness: provisioning took a graph built after one function was
\* discovered and the other had failed to build.
C14_Witness ==
    /\ provisioned
    /\ graphBuilds = 1
    /\ recorded["fA"] = "success"
    /\ derr["fB"] = BuildError

C20_ContainerTornDown ==
    /\ [](\A f \in Functions :
            dstate[f] \in Terminated => container[f] # "running")
    /\ \A f \in Functions :
          (container[f] = "running")
             ~> (container[f] \in {"stopped", "killed"})

\* C20 witness: one container was stopped after a protocol error, the other
\* after a successful discovery.
C20_Witness ==
    /\ derr["fA"] = FailedPrecondition /\ container["fA"] = "stopped"
    /\ derr["fB"] = OK /\ container["fB"] = "stopped"
    /\ dstate["fA"] = "recorded" /\ dstate["fB"] = "recorded"

====
